---- MODULE Spec2Model ----
(***************************************************************************)
(* A model of sdl_utils/sdl_socket.py: the framed file transfer (name      *)
(* line, size line, body) between a client that connects and receives and  *)
(* a peer that sends.  Bytes are integers 0..255, text is a sequence of    *)
(* Unicode code points, and str.encode / bytes.decode / int() / str() are  *)
(* computed as Python computes them on the values the model draws.         *)
(* Three further specifications follow it: AWSIoTClient.connect (aws_iot), *)
(* PrefectClient.run_workflow (prefect_client) and two sessions receiving  *)
(* concurrently.                                                           *)
(***************************************************************************)
EXTENDS Integers, Sequences, FiniteSets, TLC

(***************************************************************************)
(* Bounds of the model.                                                    *)
(***************************************************************************)
\* longest file name, in characters
MaxName == 1
\* longest payload, in bytes
MaxBody == 5
\* largest chunk_size handed to receive_file (0 and -1 are drawn too)
MaxChunk == 3
\* most bytes an arbitrary (non-Sender) peer writes
MaxRaw == 5
\* the largest max_retries a retrying client is constructed with
MaxRetries == 3
\* most reactions on the message a poll of the approval wait reads
MaxReactions == 2
\* most words of the command on the worker's command line
MaxArgs == 2
\* most calls of subscribe and disconnect made on a connected AWSIoTClient
MaxCalls == 2

NL == 10

\* sock.settimeout(10.0)
ConnectTimeout == 10

\* await_approval_response: timeout_seconds: int = 300, time.sleep(5)
DefaultTimeout == 300
PollInterval == 5

\* characters of the file names drawn: 'a' and U+00E9 (two bytes in UTF-8)
NameChars == {97, 233}
\* bytes of the payloads drawn: 'h' and the newline byte
BodyBytes == {104, NL}
\* bytes an arbitrary peer writes: newline, space, '-', '1', 'a', and 0xC3, a
\* UTF-8 lead byte
RawBytes == {NL, 32, 45, 49, 97, 195}

SeqsUpTo(S, n) == UNION {[1..k -> S] : k \in 0..n}

Min(a, b) == IF a < b THEN a ELSE b

(***************************************************************************)
(* str.encode("utf-8") and bytes.decode("utf-8") for code points below     *)
(* U+0800 (one- and two-byte forms; the model draws no lead byte >= 0xE0). *)
(***************************************************************************)
EncodeChar(c) ==
    IF c < 128 THEN <<c>> ELSE <<192 + (c \div 64), 128 + (c % 64)>>

RECURSIVE Utf8Encode(_)
Utf8Encode(s) ==
    IF s = <<>> THEN <<>> ELSE EncodeChar(Head(s)) \o Utf8Encode(Tail(s))

IsContinuation(b) == b >= 128 /\ b <= 191

\* the strict decoder: [ok |-> TRUE, text |-> ...] or UnicodeDecodeError
RECURSIVE Utf8Decode(_)
Utf8Decode(bs) ==
    IF bs = <<>> THEN [ok |-> TRUE, text |-> <<>>]
    ELSE IF Head(bs) < 128
    THEN LET rest == Utf8Decode(Tail(bs))
         IN  IF rest.ok THEN [ok |-> TRUE, text |-> <<Head(bs)>> \o rest.text]
             ELSE rest
    ELSE IF Head(bs) >= 194 /\ Head(bs) <= 223 /\ Len(bs) >= 2
            /\ IsContinuation(bs[2])
    THEN LET rest == Utf8Decode(Tail(Tail(bs)))
         IN  IF rest.ok
             THEN [ok |-> TRUE,
                   text |-> <<(Head(bs) - 192) * 64 + (bs[2] - 128)>> \o rest.text]
             ELSE rest
    ELSE [ok |-> FALSE, text |-> <<>>]

(***************************************************************************)
(* str(size) inside the f-string of send_file_size, and int(text) inside   *)
(* receive_file_size.                                                      *)
(***************************************************************************)
RECURSIVE NatToStr(_)
NatToStr(n) ==
    IF n < 10 THEN <<48 + n>> ELSE NatToStr(n \div 10) \o <<48 + (n % 10)>>

IntToStr(n) == IF n < 0 THEN <<45>> \o NatToStr(0 - n) ELSE NatToStr(n)

\* str.isspace() for the code points below U+0800
PyWhitespace == {9, 10, 11, 12, 13, 28, 29, 30, 31, 32, 133, 160}

\* the decimal digits int() accepts below U+0800: ASCII, Arabic-Indic,
\* extended Arabic-Indic and NKo
IsDigit(c) ==
    \/ c >= 48 /\ c <= 57
    \/ c >= 1632 /\ c <= 1641
    \/ c >= 1776 /\ c <= 1785
    \/ c >= 1984 /\ c <= 1993

DigitValue(c) ==
    IF c <= 57 THEN c - 48
    ELSE IF c <= 1641 THEN c - 1632
    ELSE IF c <= 1785 THEN c - 1776
    ELSE c - 1984

RECURSIVE StripLeft(_)
StripLeft(s) ==
    IF s # <<>> /\ Head(s) \in PyWhitespace THEN StripLeft(Tail(s)) ELSE s

RECURSIVE StripRight(_)
StripRight(s) ==
    IF s # <<>> /\ s[Len(s)] \in PyWhitespace
    THEN StripRight(SubSeq(s, 1, Len(s) - 1))
    ELSE s

\* digits, with single underscores allowed between two digits
RECURSIVE DigitsValue(_, _)
DigitsValue(s, acc) ==
    IF s = <<>> THEN <<acc>>
    ELSE IF IsDigit(Head(s)) THEN DigitsValue(Tail(s), acc * 10 + DigitValue(Head(s)))
    ELSE IF Head(s) = 95 /\ Len(s) >= 2 /\ IsDigit(s[2]) THEN DigitsValue(Tail(s), acc)
    ELSE <<>>

\* int(text): <<n>>, or <<>> for ValueError
PyInt(text) ==
    LET t == StripRight(StripLeft(text))
        signed == t # <<>> /\ Head(t) \in {43, 45}
        body == IF signed THEN Tail(t) ELSE t
        mag == IF body = <<>> \/ ~IsDigit(Head(body)) THEN <<>> ELSE DigitsValue(body, 0)
    IN  IF mag = <<>> THEN <<>>
        ELSE IF signed /\ Head(t) = 45 THEN <<0 - mag[1]>>
        ELSE mag

\* a slip that turns an unparsable size into a size of zero
ParseFileSizeOrZero(num_in_str) ==
    IF PyInt(num_in_str) = <<>> THEN <<0>> ELSE PyInt(num_in_str)

\* the try block of receive_file_size: <<file_size>>, or <<>> for ValueError
ParseFileSize(num_in_str) == PyInt(num_in_str)

(***************************************************************************)
(* Python's exception classes, as far as the except clauses of the module  *)
(* tell them apart.  socket.timeout (TimeoutError since 3.10) derives from *)
(* OSError, not from ConnectionError.                                      *)
(***************************************************************************)
ConnectionErrorClasses ==
    {"ConnectionError", "ConnectionRefusedError", "ConnectionResetError",
     "ConnectionAbortedError", "BrokenPipeError"}

IsConnectionError(e) == e \in ConnectionErrorClasses

\* UnicodeDecodeError derives from ValueError
ValueErrorClasses == {"ValueError", "UnicodeError", "UnicodeDecodeError"}

\* what sock.connect can do: succeed, be refused or reset, or time out
ConnectOutcomes == {"ok", "ConnectionRefusedError", "ConnectionResetError", "TimeoutError"}

\* the logger argument of a call: a working logger, the default None, or a
\* logger whose methods raise
LoggerKinds == {"ok", "none", "raises"}

\* a slip that skips the log call when no logger is given
LogRaisesUnlessNone(lg) == IF lg = "raises" THEN "LoggerError" ELSE ""

\* the exception a log call raises, "" when it returns
LogRaises(lg) ==
    IF lg = "none" THEN "AttributeError" ELSE IF lg = "raises" THEN "LoggerError" ELSE ""

NoExc == [type |-> "", args |-> <<>>]
Exc(t) == [type |-> t, args |-> <<>>]

Names == SeqsUpTo(NameChars, MaxName)
Payloads == SeqsUpTo(BodyBytes, MaxBody)
ChunkSizes == (0 - 1)..MaxChunk

(***************************************************************************)
(* The order in which the two roles call the functions (spec section 4.4;  *)
(* the module's own __main__ block is empty).                              *)
(***************************************************************************)
ReceiverSequence == <<"connect_socket", "receive_file_name", "receive_file_size", "receive_file">>
SenderSequence == <<"send_file_name", "send_file_size", "sendall">>

VARIABLES
    \* the client's socket
    timeout,        \* <<>> for None, <<t>> after settimeout(t)
    conn,           \* "fresh", "connected" or "failed"
    attempts,       \* sock.connect calls made
    \* the client's position: the function it is in and where
    fn, rpc,
    \* what the client's caller has got back
    connected_ret,  \* connect_socket's return value: <<>> (none yet), <<TRUE>>, <<FALSE>>
    rname, rsize, rbody,   \* <<>> or <<value returned>>
    exc,            \* the exception that reached the caller
    logger,         \* the logger argument at the client's latest log call
    \* locals of _recv_until_newline and receive_file
    data_chunks, file_size, chunk_size, received_file, bytes_received,
    requests,       \* the sizes receive_file has asked recv for
    \* the peer and the stream from it
    N, P, spc, wire, sent, closed

VARIABLES
    \* AWSIoTClient: the instance, connect()'s position, its loop variable,
    \* what it returned and what it did (attempts made, sleeps taken)
    iot, iot_pc, attempt, iot_ret, iot_trace,
    \* PrefectClient: the instance, run_workflow()'s position, its loop
    \* variable, what reached its caller and what it did
    prefect, wf_pc, wf_attempt, wf_ret, wf_exc, wf_trace,
    \* concurrent sessions: each session's socket, the frames holding the
    \* locals of the running calls, each session's position and results
    socks, frames, at, got,
    \* slack_bot and prefect_orchestrator: the module's client, which function
    \* was called, the position in it, what ask_for_approval got back, the
    \* wait's arguments and clock, the latest poll, and what came of it
    slack_client, entry, ap_pc, response_data, timeout_seconds, start_time, now,
    message, api_errors, await_ret, approval_decision, deployed, slack_messages,
    \* prefect_worker: the command line, execute_remote_task's position, what
    \* the command did, what was printed and the exit status
    argv, wk_pc, run_result, stdout, exit_status,
    \* AWSIoTClient after connect(): its connected flag and registry, paho's
    \* network loop and session, the caller's position, current call, the
    \* registry as that call began, its return value and the calls made
    connected, connection_error, message_handlers, loop_thread, broker,
    mq_pc, mq_call, mq_before, mq_ret, mq_calls

socketVars == <<timeout, conn, attempts, fn, rpc, connected_ret, rname, rsize, rbody, exc,
                logger, data_chunks, file_size, chunk_size, received_file, bytes_received,
                requests, N, P, spc, wire, sent, closed>>
iotVars == <<iot, iot_pc, attempt, iot_ret, iot_trace>>
prefectVars == <<prefect, wf_pc, wf_attempt, wf_ret, wf_exc, wf_trace>>
sessionVars == <<socks, frames, at, got>>
slackVars == <<slack_client, entry, ap_pc, response_data, timeout_seconds, start_time, now,
               message, api_errors, await_ret, approval_decision, deployed, slack_messages>>
workerVars == <<argv, wk_pc, run_result, stdout, exit_status>>
mqttVars == <<connected, connection_error, message_handlers, loop_thread, broker,
              mq_pc, mq_call, mq_before, mq_ret, mq_calls>>
\* what the socket client's steps never touch
others == <<iotVars, prefectVars, sessionVars, slackVars, workerVars, mqttVars>>

vars == <<socketVars, others>>

clientSock == <<timeout, conn, attempts, logger>>
clientRet == <<connected_ret, rname, rsize, rbody>>
bodyLocals == <<file_size, chunk_size, received_file, bytes_received, requests>>
peerVars == <<N, P, spc, sent, closed>>

\* no AWSIoTClient, no PrefectClient and no concurrent session in play
IoTIdle ==
    /\ iot = <<>> /\ iot_pc = "" /\ attempt = 0 /\ iot_ret = <<>> /\ iot_trace = <<>>
PrefectIdle ==
    /\ prefect = <<>> /\ wf_pc = "" /\ wf_attempt = 0
    /\ wf_ret = <<>> /\ wf_exc = <<>> /\ wf_trace = <<>>
SessionsIdle ==
    /\ socks = <<>> /\ frames = <<>> /\ at = <<>> /\ got = <<>>
SlackIdle ==
    /\ slack_client = FALSE /\ entry = "" /\ ap_pc = "" /\ response_data = {}
    /\ timeout_seconds = 0 /\ start_time = 0 /\ now = 0
    /\ message = <<>> /\ api_errors = FALSE /\ await_ret = <<>>
    /\ approval_decision = <<>> /\ deployed = 0 /\ slack_messages = <<>>
WorkerIdle ==
    /\ argv = <<>> /\ wk_pc = "" /\ run_result = <<>> /\ stdout = <<>> /\ exit_status = <<>>
MqttIdle ==
    /\ connected = FALSE /\ connection_error = "" /\ message_handlers = <<>> /\ loop_thread = FALSE /\ broker = ""
    /\ mq_pc = "" /\ mq_call = <<>> /\ mq_before = <<>> /\ mq_ret = <<>> /\ mq_calls = 0

Init ==
    /\ IoTIdle /\ PrefectIdle /\ SessionsIdle /\ SlackIdle /\ WorkerIdle /\ MqttIdle
    /\ timeout = <<>>
    /\ conn = "fresh"
    /\ attempts = 0
    /\ fn = ReceiverSequence[1]
    /\ rpc = "settimeout"
    /\ connected_ret = <<>>
    /\ rname = <<>>
    /\ rsize = <<>>
    /\ rbody = <<>>
    /\ exc = NoExc
    /\ logger = ""
    /\ data_chunks = <<>>
    /\ file_size = 0
    /\ chunk_size = 0
    /\ received_file = <<>>
    /\ bytes_received = 0
    /\ requests = <<>>
    /\ wire = <<>>
    /\ sent = <<>>
    /\ closed = FALSE
    /\ \/ /\ spc = SenderSequence[1]
          /\ N \in Names
          /\ P \in Payloads
       \/ /\ spc = "raw"
          /\ N = <<>>
          /\ P = <<>>

\* the function raises e to its caller: the sequence stops there
Raise(e) ==
    /\ rpc' = "raised"
    /\ exc' = Exc(e)

(***************************************************************************)
(* connect_socket                                                          *)
(***************************************************************************)
\* a slip that attempts the connection without the timeout set
ConnectWithoutTimeout ==
    /\ fn = "connect_socket" /\ rpc = "settimeout"
    /\ rpc' = "connect"
    /\ UNCHANGED <<others, timeout, conn, attempts, logger, fn, clientRet, exc, data_chunks,
                   bodyLocals, peerVars, wire>>

ConnectSetTimeout ==
    /\ fn = "connect_socket" /\ rpc = "settimeout"
    /\ timeout' = <<ConnectTimeout>>
    /\ rpc' = "connect"
    /\ UNCHANGED <<others, conn, attempts, logger, fn, clientRet, exc, data_chunks, bodyLocals,
                   peerVars, wire>>

\* a slip that tries again after a refused or reset connection
ConnectAttemptRetrying ==
    /\ fn = "connect_socket" /\ rpc = "connect"
    /\ attempts' = attempts + 1
    /\ \E outcome \in ConnectOutcomes :
          IF outcome = "ok"
          THEN conn' = "connected" /\ rpc' = "clear" /\ UNCHANGED exc
          ELSE /\ conn' = "failed"
               /\ IF IsConnectionError(outcome)
                  THEN UNCHANGED <<rpc, exc>>
                  ELSE Raise(outcome)
    /\ UNCHANGED <<others, timeout, logger, fn, clientRet, data_chunks, bodyLocals,
                   peerVars, wire>>

ConnectAttempt ==
    /\ fn = "connect_socket" /\ rpc = "connect"
    /\ attempts' = attempts + 1
    /\ \E outcome \in ConnectOutcomes, lg \in LoggerKinds :
          IF outcome = "ok"
          THEN /\ conn' = "connected"
               /\ rpc' = "clear"
               /\ UNCHANGED <<connected_ret, exc, logger>>
          ELSE /\ conn' = "failed"
               /\ IF ~IsConnectionError(outcome)
                  THEN Raise(outcome) /\ UNCHANGED <<connected_ret, logger>>
                  ELSE /\ logger' = lg
                       /\ IF LogRaises(lg) # ""
                          THEN Raise(LogRaises(lg)) /\ UNCHANGED connected_ret
                          ELSE /\ connected_ret' = <<FALSE>>
                               /\ rpc' = "returned"
                               /\ UNCHANGED exc
    /\ UNCHANGED <<others, timeout, fn, rname, rsize, rbody, data_chunks, bodyLocals,
                   peerVars, wire>>

\* a slip that leaves the connect timeout on the connected socket
ConnectClearKeepsTimeout ==
    /\ fn = "connect_socket" /\ rpc = "clear"
    /\ \E lg \in LoggerKinds :
          /\ logger' = lg
          /\ IF LogRaises(lg) # ""
             THEN Raise(LogRaises(lg)) /\ UNCHANGED <<connected_ret, fn>>
             ELSE /\ connected_ret' = <<TRUE>>
                  /\ fn' = ReceiverSequence[2]
                  /\ rpc' = "recv"
                  /\ UNCHANGED exc
    /\ UNCHANGED <<others, timeout, conn, attempts, rname, rsize, rbody, data_chunks,
                   bodyLocals, peerVars, wire>>

ConnectClear ==
    /\ fn = "connect_socket" /\ rpc = "clear"
    /\ timeout' = <<>>
    /\ \E lg \in LoggerKinds :
          /\ logger' = lg
          /\ IF LogRaises(lg) # ""
             THEN Raise(LogRaises(lg)) /\ UNCHANGED <<connected_ret, fn>>
             ELSE /\ connected_ret' = <<TRUE>>
                  /\ fn' = ReceiverSequence[2]
                  /\ rpc' = "recv"
                  /\ UNCHANGED exc
    /\ UNCHANGED <<others, conn, attempts, rname, rsize, rbody, data_chunks, bodyLocals,
                   peerVars, wire>>

(***************************************************************************)
(* sock.recv(n) for n > 0 returns once the stream holds a byte or the peer *)
(* has closed; until then the caller is blocked.                           *)
(***************************************************************************)
RecvReturns == wire # <<>> \/ closed

\* a slip that returns what had arrived when the peer closes
RecvUntilNewlineKeepsPartial ==
    IF wire = <<>> \/ Head(wire) = NL
    THEN LET d == Utf8Decode(data_chunks)
         IN  IF d.ok THEN [kind |-> "return", text |-> d.text]
             ELSE [kind |-> "raise", text |-> <<>>]
    ELSE [kind |-> "loop", text |-> <<>>]

\* a slip that fails when the peer closes before the newline
RecvUntilNewlineFailsOnClose ==
    IF wire = <<>>
    THEN [kind |-> "raise", text |-> <<>>]
    ELSE IF Head(wire) = NL
    THEN LET d == Utf8Decode(data_chunks)
         IN  IF d.ok THEN [kind |-> "return", text |-> d.text]
             ELSE [kind |-> "raise", text |-> <<>>]
    ELSE [kind |-> "loop", text |-> <<>>]

\* a slip that keeps the terminator in the line returned
RecvUntilNewlineKeepsTerminator ==
    IF wire = <<>>
    THEN [kind |-> "return", text |-> <<>>]
    ELSE IF Head(wire) = NL
    THEN LET d == Utf8Decode(Append(data_chunks, NL))
         IN  IF d.ok THEN [kind |-> "return", text |-> d.text]
             ELSE [kind |-> "raise", text |-> <<>>]
    ELSE [kind |-> "loop", text |-> <<>>]

\* one turn of _recv_until_newline's loop, at a moment recv(1) returns:
\* "loop" (byte kept), "return" (with the text) or "raise"
RecvUntilNewline ==
    IF wire = <<>>
    THEN [kind |-> "return", text |-> <<>>]
    ELSE IF Head(wire) = NL
    THEN LET d == Utf8Decode(data_chunks)
         IN  IF d.ok THEN [kind |-> "return", text |-> d.text]
             ELSE [kind |-> "raise", text |-> <<>>]
    ELSE [kind |-> "loop", text |-> <<>>]

\* a slip that asks recv for two bytes at a time
AfterRecv2 == IF Len(wire) <= 1 THEN <<>> ELSE Tail(Tail(wire))

\* the stream after that recv(1)
AfterRecv1 == IF wire = <<>> THEN wire ELSE Tail(wire)

ReceiveFileName ==
    /\ fn = "receive_file_name" /\ rpc = "recv"
    /\ RecvReturns
    /\ wire' = AfterRecv1
    /\ LET r == RecvUntilNewline
       IN  CASE r.kind = "loop" ->
                  /\ data_chunks' = Append(data_chunks, Head(wire))
                  /\ UNCHANGED <<fn, rpc, rname, exc>>
             [] r.kind = "return" ->
                  /\ rname' = <<r.text>>
                  /\ fn' = ReceiverSequence[3]
                  /\ data_chunks' = <<>>
                  /\ UNCHANGED <<rpc, exc>>
             [] r.kind = "raise" ->
                  /\ Raise("UnicodeDecodeError")
                  /\ UNCHANGED <<fn, rname, data_chunks>>
    /\ UNCHANGED <<others, clientSock, connected_ret, rsize, rbody, bodyLocals, peerVars>>

ReceiveFileSize ==
    /\ fn = "receive_file_size" /\ rpc = "recv"
    /\ RecvReturns
    /\ wire' = AfterRecv1
    /\ LET r == RecvUntilNewline
       IN  CASE r.kind = "loop" ->
                  /\ data_chunks' = Append(data_chunks, Head(wire))
                  /\ UNCHANGED <<fn, rpc, rsize, exc, logger>>
             [] r.kind = "return" ->
                  LET file_size_ == ParseFileSize(r.text)
                  IN  IF file_size_ # <<>>
                      THEN /\ rsize' = file_size_
                           /\ fn' = ReceiverSequence[4]
                           /\ rpc' = "call"
                           /\ data_chunks' = <<>>
                           /\ UNCHANGED <<exc, logger>>
                      ELSE /\ \E lg \in LoggerKinds :
                                 /\ logger' = lg
                                 /\ IF LogRaises(lg) # ""
                                    THEN Raise(LogRaises(lg))
                                    ELSE /\ rpc' = "raised"
                                         /\ exc' = [type |-> "ValueError", args |-> <<r.text>>]
                           /\ UNCHANGED <<fn, rsize, data_chunks>>
             [] r.kind = "raise" ->
                  /\ Raise("UnicodeDecodeError")
                  /\ UNCHANGED <<fn, rsize, data_chunks, logger>>
    /\ UNCHANGED <<others, timeout, conn, attempts, connected_ret, rname, rbody, bodyLocals, peerVars>>

(***************************************************************************)
(* receive_file.  A logger that got through the first info call is a       *)
(* working one, so the later log calls of the same call return.            *)
(***************************************************************************)
ReceiveFileCall ==
    /\ fn = "receive_file" /\ rpc = "call"
    /\ \E cs \in ChunkSizes, lg \in LoggerKinds :
          /\ chunk_size' = cs
          /\ file_size' = rsize[1]
          /\ received_file' = <<>>
          /\ bytes_received' = 0
          /\ requests' = <<>>
          /\ logger' = lg
          /\ IF LogRaises(lg) # ""
             THEN Raise(LogRaises(lg))
             ELSE rpc' = "loop" /\ UNCHANGED exc
    /\ UNCHANGED <<others, timeout, conn, attempts, fn, clientRet, data_chunks, peerVars, wire>>

\* a slip that puts the new chunk in front
AccumulateInFront(buf, chunk) == chunk \o buf

\* received_file += chunk
Accumulate(buf, chunk) == buf \o chunk

\* a slip that asks for a whole chunk whatever is outstanding
RequestWholeChunk == chunk_size

\* the size the next recv is asked for
Request == Min(chunk_size, file_size - bytes_received)

\* a slip that takes a short read for the end of the stream
ShortRead(chunk) == Len(chunk) < Request

\* if not chunk
NotChunk(chunk) == chunk = <<>>

\* the lengths recv(n) may return: nothing for n = 0 or at end of stream,
\* otherwise any part of what has arrived, up to n
RecvLengths(n) ==
    IF n = 0 \/ wire = <<>> THEN {0} ELSE 1..Min(n, Len(wire))

\* a slip that counts what was asked for instead of what arrived
AdvanceByRequest(count, chunk) == count + Request

\* a slip that leaves the count where it was
AdvanceNot(count, chunk) == count

\* bytes_received += len(chunk)
Advance(count, chunk) == count + Len(chunk)

\* a slip that goes round once more when the count has reached the size
MoreToReceiveInclusive == bytes_received <= file_size

\* while bytes_received < file_size
MoreToReceive == bytes_received < file_size

ReceiveFileLoop ==
    /\ fn = "receive_file" /\ rpc = "loop"
    /\ MoreToReceive
    /\ requests' = Append(requests, Request)
    /\ IF Request < 0
       THEN \* recv: "negative buffersize in recv"
            /\ Raise("ValueError")
            /\ UNCHANGED <<wire, received_file, bytes_received>>
       ELSE /\ Request = 0 \/ RecvReturns
            /\ \E k \in RecvLengths(Request) :
                  LET chunk == SubSeq(wire, 1, k)
                  IN  /\ wire' = SubSeq(wire, k + 1, Len(wire))
                      /\ IF NotChunk(chunk)
                         THEN /\ Raise("ConnectionError")
                              /\ UNCHANGED <<received_file, bytes_received>>
                         ELSE /\ received_file' = Accumulate(received_file, chunk)
                              /\ bytes_received' = Advance(bytes_received, chunk)
                              /\ UNCHANGED <<rpc, exc>>
    /\ UNCHANGED <<others, clientSock, fn, clientRet, data_chunks, file_size, chunk_size,
                   peerVars>>

ReceiveFileReturn ==
    /\ fn = "receive_file" /\ rpc = "loop"
    /\ ~MoreToReceive
    /\ rbody' = <<received_file>>
    /\ rpc' = "done"
    /\ UNCHANGED <<others, clientSock, fn, connected_ret, rname, rsize, exc, data_chunks,
                   bodyLocals, peerVars, wire>>

(***************************************************************************)
(* The peer: the Sender sequence, or a peer that writes what it likes.     *)
(***************************************************************************)
\* a slip that ends the line with a carriage return and a newline
NameMessageCRLF(name) == name \o <<13, NL>>

\* message = name + "\n"
NameMessage(name) == name \o <<NL>>

\* message = f"{size}\n"
SizeMessage(size) == IntToStr(size) \o <<NL>>

Write(bytes) ==
    /\ wire' = wire \o bytes
    /\ sent' = sent \o bytes

SendFileName ==
    /\ conn = "connected" /\ ~closed
    /\ spc = "send_file_name"
    /\ Write(Utf8Encode(NameMessage(N)))
    /\ \E lg \in LoggerKinds :
          spc' = IF LogRaises(lg) # "" THEN "raised" ELSE SenderSequence[2]
    /\ UNCHANGED <<others, clientSock, fn, rpc, clientRet, exc, data_chunks, bodyLocals,
                   N, P, closed>>

SendFileSize ==
    /\ conn = "connected" /\ ~closed
    /\ spc = "send_file_size"
    /\ Write(Utf8Encode(SizeMessage(Len(P))))
    /\ \E lg \in LoggerKinds :
          spc' = IF LogRaises(lg) # "" THEN "raised" ELSE SenderSequence[3]
    /\ UNCHANGED <<others, clientSock, fn, rpc, clientRet, exc, data_chunks, bodyLocals,
                   N, P, closed>>

\* sock.sendall(P): all of P, or a part of it when the connection breaks
SendBody ==
    /\ conn = "connected" /\ ~closed
    /\ spc = "sendall"
    /\ \E k \in 0..Len(P) :
          /\ Write(SubSeq(P, 1, k))
          /\ IF k = Len(P)
             THEN spc' = "done" /\ UNCHANGED closed
             ELSE spc' = "failed" /\ closed' = TRUE
    /\ UNCHANGED <<others, clientSock, fn, rpc, clientRet, exc, data_chunks, bodyLocals, N, P>>

RawWrite ==
    /\ conn = "connected" /\ ~closed
    /\ spc = "raw"
    /\ Len(sent) < MaxRaw
    /\ \E b \in RawBytes : Write(<<b>>)
    /\ UNCHANGED <<others, clientSock, fn, rpc, clientRet, exc, data_chunks, bodyLocals,
                   N, P, spc, closed>>

PeerClose ==
    /\ conn = "connected" /\ ~closed
    /\ spc \in {"raw", "done", "raised"}
    /\ closed' = TRUE
    /\ UNCHANGED <<others, clientSock, fn, rpc, clientRet, exc, data_chunks, bodyLocals,
                   N, P, spc, wire, sent>>

Next ==
    \/ ConnectSetTimeout
    \/ ConnectAttempt
    \/ ConnectClear
    \/ ReceiveFileName
    \/ ReceiveFileSize
    \/ ReceiveFileCall
    \/ ReceiveFileLoop
    \/ ReceiveFileReturn
    \/ SendFileName
    \/ SendFileSize
    \/ SendBody
    \/ RawWrite
    \/ PeerClose

Spec == Init /\ [][Next]_vars

(***************************************************************************)
(* What the properties below read off the stream.                          *)
(***************************************************************************)
\* the position in s of its n-th newline byte, 0 when it has fewer
RECURSIVE LineEndFrom(_, _, _)
LineEndFrom(s, n, i) ==
    IF i > Len(s) THEN 0
    ELSE IF s[i] = NL
    THEN IF n = 1 THEN i ELSE LineEndFrom(s, n - 1, i + 1)
    ELSE LineEndFrom(s, n, i + 1)

LineEnd(s, n) == LineEndFrom(s, n, 1)

\* the bytes of the n-th line of s, without its newline
Line(s, n) ==
    SubSeq(s, (IF n = 1 THEN 0 ELSE LineEnd(s, n - 1)) + 1, LineEnd(s, n) - 1)

\* bytes the client has taken from the stream
Consumed == Len(sent) - Len(wire)

\* where the body starts in the stream: after the size line
BodyOffset == LineEnd(sent, 2)

\* the first n bytes of the stream's body part
BodyPrefix(n) == IF n > 0 THEN SubSeq(sent, BodyOffset + 1, BodyOffset + n) ELSE <<>>

RECURSIVE Sum(_)
Sum(q) == IF q = <<>> THEN 0 ELSE Head(q) + Sum(Tail(q))

InReceiveFile == fn = "receive_file" /\ rpc \in {"loop", "done", "raised"}
Returned == fn = "receive_file" /\ rpc = "done"
ConnectionLost ==
    fn = "receive_file" /\ rpc = "raised" /\ exc.type = "ConnectionError"

(***************************************************************************)
(* C1  Round trip: against a peer that runs the Sender sequence with name  *)
(* N and payload P, every value the Receiver sequence returns is the one   *)
(* sent: the name is N, the size is Len(P), the body is P byte for byte.   *)
(***************************************************************************)
C1_RoundTrip ==
    spc # "raw" =>
        /\ rname # <<>> => rname = <<N>>
        /\ rsize # <<>> => rsize = <<Len(P)>>
        /\ rbody # <<>> => rbody = <<P>>

C1_Witness ==
    /\ Returned /\ spc = "done"
    /\ rname = <<N>> /\ N = <<233>>
    /\ rbody = <<P>> /\ Len(P) >= 3 /\ P[1] # P[2]

(***************************************************************************)
(* C2  Chunk-size invariance: what receive_file has accumulated is always  *)
(* the stream's body part up to bytes_received, and the body it returns is *)
(* the first file_size bytes of it, whatever chunk_size is; with a chunk   *)
(* size of at least 1 it fails with Connection Lost only when the peer     *)
(* closed with fewer than file_size body bytes sent.                       *)
(***************************************************************************)
C2_ChunkSizeInvariance ==
    /\ InReceiveFile => received_file = BodyPrefix(bytes_received)
    /\ Returned => rbody = <<BodyPrefix(file_size)>>
    /\ ConnectionLost /\ chunk_size >= 1 =>
          closed /\ Len(sent) - BodyOffset < file_size

C2_Witness ==
    /\ Returned /\ chunk_size = 1 /\ file_size >= 2
    /\ rbody[1][1] # rbody[1][2]

(***************************************************************************)
(* C3  Size monotonicity, as claimed: during receive_file bytes_received   *)
(* never exceeds the declared size.                                        *)
(***************************************************************************)
C3_NeverExceedsDeclared == InReceiveFile => bytes_received <= file_size

(***************************************************************************)
(* C4  Premature close, as claimed: when receive_file raises Connection    *)
(* Lost, the caller is handed bytes_received with the exception.           *)
(***************************************************************************)
C4_CountObservable == ConnectionLost => exc.args = <<bytes_received>>

(***************************************************************************)
(* C4  amended: with a chunk size of at least 1, receive_file raises       *)
(* Connection Lost only when the peer closed after k < file_size body      *)
(* bytes, all k of which it had received; the exception is a bare          *)
(* ConnectionError and nothing is returned, so the caller is not handed k. *)
(***************************************************************************)
C4_PrematureClose ==
    ConnectionLost /\ chunk_size >= 1 =>
        /\ closed /\ wire = <<>>
        /\ bytes_received = Len(sent) - BodyOffset
        /\ bytes_received < file_size
        /\ exc.args = <<>>
        /\ rbody = <<>>

C4_Witness ==
    ConnectionLost /\ chunk_size >= 1 /\ bytes_received >= 1 /\ file_size >= 3

(***************************************************************************)
(* C5  Malformed size: once the client has read a size line that holds a   *)
(* letter, receive_file_size has raised (ValueError, when the logger it    *)
(* was given works), has taken exactly that line from the stream, and no   *)
(* size and no body is returned.                                           *)
(***************************************************************************)
IsLetter(b) == (b >= 65 /\ b <= 90) \/ (b >= 97 /\ b <= 122)

SizeLineRead == rname # <<>> /\ BodyOffset > 0 /\ Consumed >= BodyOffset

MalformedSizeLine == \E i \in 1..Len(Line(sent, 2)) : IsLetter(Line(sent, 2)[i])

C5_MalformedSize ==
    SizeLineRead /\ MalformedSizeLine =>
        /\ fn = "receive_file_size" /\ rpc = "raised"
        /\ LogRaises(logger) = "" => exc.type \in ValueErrorClasses
        /\ exc.type \in ValueErrorClasses \cup {LogRaises(lg) : lg \in LoggerKinds \ {"ok"}}
        /\ Consumed = BodyOffset
        /\ rsize = <<>> /\ rbody = <<>>

C5_Witness ==
    /\ SizeLineRead /\ Line(sent, 2) = <<97>>
    /\ exc = [type |-> "ValueError", args |-> <<<<97>>>>]
    /\ wire # <<>>

(***************************************************************************)
(* C6  as claimed: receive_file_size never returns a negative size.        *)
(***************************************************************************)
C6_NoNegativeSize == rsize # <<>> => rsize[1] >= 0

(***************************************************************************)
(* C7  Connect failure, as claimed: when the connect attempt has failed    *)
(* and no log call raised, connect_socket has returned False.              *)
(***************************************************************************)
C7_FailureReturnsFalse ==
    conn = "failed" /\ LogRaises(logger) = "" =>
        connected_ret = <<FALSE>> /\ exc = NoExc

(***************************************************************************)
(* C8  Connect timeout discipline: the connect attempt is made with the    *)
(* timeout at 10, the timeout is set only before the attempt, it is        *)
(* cleared only once the socket is connected, and after a failed attempt   *)
(* it is still 10.                                                         *)
(***************************************************************************)
C8_TimeoutDiscipline ==
    /\ [][/\ attempts' # attempts => timeout = <<10>>
          /\ timeout' # timeout /\ timeout' # <<>> => timeout' = <<10>> /\ attempts = 0
          /\ timeout' # timeout /\ timeout' = <<>> => conn = "connected" /\ attempts = 1
         ]_vars
    /\ [](conn = "failed" => timeout = <<10>>)
    /\ [](connected_ret = <<TRUE>> => timeout = <<>> /\ conn = "connected")

C8_Witness == connected_ret = <<TRUE>> /\ timeout = <<>> /\ attempts = 1

(***************************************************************************)
(* C9  Each recv of receive_file is asked for exactly min(chunk_size,      *)
(* file_size - bytes_received) bytes; when every request was filled, the   *)
(* requests are whole chunks followed by the remainder, and for size 5     *)
(* and chunk size 2 they are 2, 2, 1.                                      *)
(***************************************************************************)
EveryRequestFilled == Sum(requests) = bytes_received

C9_RequestSizes ==
    /\ [][requests' # requests =>
            /\ requests' = Append(requests, Min(chunk_size, file_size - bytes_received))
            /\ requests'[Len(requests')] <= file_size - bytes_received
         ]_vars
    /\ [](Returned /\ chunk_size >= 1 /\ file_size > 0 /\ EveryRequestFilled =>
            /\ \A i \in 1..(Len(requests) - 1) : requests[i] = chunk_size
            /\ Sum(requests) = file_size
            /\ requests[Len(requests)] >= 1 /\ requests[Len(requests)] <= chunk_size)
    /\ [](Returned /\ chunk_size = 2 /\ file_size = 5 /\ EveryRequestFilled =>
            requests = <<2, 2, 1>>)

C9_Witness == Returned /\ file_size = 5 /\ chunk_size = 2 /\ requests = <<2, 2, 1>>

(***************************************************************************)
(* C10  Transfer completeness, as claimed: whenever receive_file has       *)
(* returned, the bytes received equal the declared size and the buffer     *)
(* handed back has exactly that many bytes.                                *)
(***************************************************************************)
C10_CompleteOnReturn ==
    Returned => bytes_received = file_size /\ Len(rbody[1]) = file_size

(***************************************************************************)
(* C11  When the peer closes before the newline has arrived, the line read *)
(* returns the empty string, also when bytes of the line had arrived:      *)
(* receive_file_name then returns "" and raises nothing, the same value it *)
(* returns for an empty line, and receive_file_size is handed "" to parse. *)
(***************************************************************************)
\* the name was returned although the stream holds no newline
NameCutShort == rname # <<>> /\ LineEnd(sent, 1) = 0

\* receive_file_size failed although the stream holds no second newline
SizeCutShort ==
    fn = "receive_file_size" /\ rpc = "raised" /\ LineEnd(sent, 2) = 0

C11_ClosedLineIsEmpty ==
    /\ NameCutShort => rname = <<<<>>>> /\ closed /\ Consumed = Len(sent)
    /\ rname # <<>> /\ LineEnd(sent, 1) = 1 => rname = <<<<>>>>
    /\ fn = "receive_file_name" /\ rpc = "raised" =>
          exc.type = "UnicodeDecodeError" /\ LineEnd(sent, 1) > 0
    /\ SizeCutShort /\ exc.type = "ValueError" => exc.args = <<<<>>>>

C11_Witness ==
    /\ NameCutShort /\ rname = <<<<>>>> /\ Len(sent) >= 2
    /\ fn = "receive_file_size" /\ rpc = "recv"

(***************************************************************************)
(* C12  as claimed: a zero-byte read while a header line is being read     *)
(* ends the read with a Connection Lost failure.                           *)
(***************************************************************************)
C12_HeaderCloseIsConnectionLost ==
    NameCutShort \/ SizeCutShort =>
        rpc = "raised" /\ exc.type = "ConnectionError"

(***************************************************************************)
(* C12  amended: a zero-byte read in the header phase is never surfaced as *)
(* Connection Lost.  receive_file_name returns "" and the sequence goes    *)
(* on; receive_file_size fails with the Malformed Header failure, a        *)
(* ValueError for the text "" (or with its log call's exception).          *)
(***************************************************************************)
C12_HeaderCloseIsMalformed ==
    /\ fn \in {"receive_file_name", "receive_file_size"} => exc.type # "ConnectionError"
    /\ NameCutShort => fn = "receive_file_size" /\ closed
    /\ SizeCutShort =>
          /\ closed /\ wire = <<>>
          /\ LogRaises(logger) = "" => exc = [type |-> "ValueError", args |-> <<<<>>>>]
          /\ LogRaises(logger) # "" => exc = Exc(LogRaises(logger))

C12_Witness ==
    /\ SizeCutShort /\ ~NameCutShort
    /\ Len(sent) > LineEnd(sent, 1)
    /\ exc.type = "ValueError"

(***************************************************************************)
(* C13  as claimed: a logger that raises never aborts the operation that   *)
(* called it.                                                              *)
(***************************************************************************)
C13_LoggingNeverAborts == logger = "raises" => rpc # "raised"

(***************************************************************************)
(* C14  Without a logger an operation raises AttributeError at its first   *)
(* log call: receive_file before any recv, connect_socket after the        *)
(* connect attempt (and after the timeout was cleared, if it succeeded),   *)
(* the send functions after the whole line was written; receive_file_name  *)
(* makes no log call, receive_file_size only for a size it cannot parse.   *)
(***************************************************************************)
C14_NoLogger ==
    /\ logger = "none" => rpc = "raised" /\ exc = Exc("AttributeError")
    /\ logger = "none" /\ fn = "receive_file" =>
          requests = <<>> /\ bytes_received = 0 /\ Consumed = BodyOffset
    /\ logger = "none" /\ fn = "connect_socket" =>
          /\ attempts = 1
          /\ \/ conn = "connected" /\ timeout = <<>>
             \/ conn = "failed" /\ timeout = <<10>>
    /\ logger = "none" /\ fn = "receive_file_size" => rsize = <<>>
    /\ logger = "none" => fn # "receive_file_name"
    /\ exc.type = "AttributeError" => logger = "none"
    /\ spc = "raised" =>
          \/ sent = Utf8Encode(N) \o <<NL>>
          \/ sent = Utf8Encode(N) \o <<NL>> \o Utf8Encode(IntToStr(Len(P))) \o <<NL>>

C14_Witness ==
    /\ logger = "none" /\ fn = "receive_file" /\ wire # <<>>
    /\ exc = Exc("AttributeError")

(***************************************************************************)
(* C15  No retry or reconnect: sock.connect is called at most once, the    *)
(* client only moves forward through its sequence, and once a function has *)
(* failed (raised, or connect_socket returned False) the client does       *)
(* nothing more: no further connect, no further byte taken.                *)
(***************************************************************************)
Position(f) == CHOOSE i \in 1..Len(ReceiverSequence) : ReceiverSequence[i] = f

Stopped == rpc \in {"raised", "returned"}

C15_NoRetry ==
    /\ [][/\ attempts' <= 1
          /\ fn' # fn => Position(fn') = Position(fn) + 1
          /\ Stopped =>
                /\ UNCHANGED <<timeout, conn, attempts, fn, rpc, exc, logger>>
                /\ UNCHANGED <<clientRet, data_chunks, bodyLocals>>
                /\ Consumed' = Consumed
         ]_vars
    /\ [](conn = "failed" => Stopped /\ fn = "connect_socket" /\ rname = <<>>)

C15_Witness ==
    /\ Stopped /\ fn = "receive_file" /\ exc.type = "ConnectionError"
    /\ attempts = 1 /\ conn = "connected"

(***************************************************************************)
(* C16  Wire format: what the Sender has written is always a prefix of     *)
(* name bytes, 0x0A, decimal digits of the size, 0x0A, payload, and is     *)
(* all of it once the sequence is done; every header line ends with one    *)
(* newline and no carriage return is added.  (The sizes drawn have one     *)
(* digit.)                                                                 *)
(***************************************************************************)
IsPrefix(a, b) == Len(a) <= Len(b) /\ a = SubSeq(b, 1, Len(a))

ExpectedFrame == Utf8Encode(N) \o <<10>> \o <<48 + Len(P)>> \o <<10>> \o P

C16_WireFormat ==
    spc # "raw" =>
        /\ IsPrefix(sent, ExpectedFrame)
        /\ spc = "done" => sent = ExpectedFrame
        /\ spc = "send_file_size" => sent = Utf8Encode(N) \o <<10>>
        /\ spc = "sendall" => sent = Utf8Encode(N) \o <<10, 48 + Len(P), 10>>
        /\ LineEnd(sent, 1) > 0 => Utf8Decode(Line(sent, 1)) = [ok |-> TRUE, text |-> N]
        /\ \A i \in 1..Len(sent) : sent[i] # 13

C16_Witness == spc = "done" /\ N = <<233>> /\ Len(P) = 3 /\ sent[1] = 195 /\ sent[2] = 169

(***************************************************************************)
(* C17  Only the connect phase has a timeout: once connect_socket has      *)
(* returned True the timeout is None and nothing sets it again, and while  *)
(* the stream is empty and the peer has not closed, a client inside a      *)
(* receive function stays where it is.                                     *)
(***************************************************************************)
Receiving ==
    \/ fn \in {"receive_file_name", "receive_file_size"} /\ rpc = "recv"
    \/ fn = "receive_file" /\ rpc = "loop" /\ bytes_received < file_size /\ Request > 0

Blocked == Receiving /\ wire = <<>> /\ ~closed

C17_OnlyConnectTimesOut ==
    /\ [](fn # "connect_socket" => timeout = <<>>)
    /\ [][fn # "connect_socket" => timeout' = timeout]_vars
    /\ [][Blocked =>
            /\ UNCHANGED <<fn, rpc, exc, clientRet, data_chunks, bodyLocals>>
            /\ Blocked' \/ wire' # <<>> \/ closed'
         ]_vars

C17_Witness ==
    /\ Blocked /\ fn = "receive_file" /\ bytes_received >= 1
    /\ connected_ret = <<TRUE>> /\ timeout = <<>>

(***************************************************************************)
(* The retry wrappers.  While one of them runs, no socket client is in     *)
(* play: its variables stay as constructed, with nothing on the stream.    *)
(***************************************************************************)
SocketIdle ==
    /\ timeout = <<>> /\ conn = "fresh" /\ attempts = 0
    /\ fn = ReceiverSequence[1] /\ rpc = "settimeout"
    /\ connected_ret = <<>> /\ rname = <<>> /\ rsize = <<>> /\ rbody = <<>>
    /\ exc = NoExc /\ logger = ""
    /\ data_chunks = <<>> /\ file_size = 0 /\ chunk_size = 0
    /\ received_file = <<>> /\ bytes_received = 0 /\ requests = <<>>
    /\ N = <<>> /\ P = <<>> /\ spc = "raw"
    /\ wire = <<>> /\ sent = <<>> /\ closed = FALSE

\* the max_retries and retry_delay a client is constructed with
RetryCounts == 0..MaxRetries
RetryDelays == {0, 5}

\* what a call into the MQTT library, or the workflow, may do
CallOutcomes == {"ok", "raise"}

(***************************************************************************)
(* AWSIoTClient.connect                                                    *)
(***************************************************************************)
CertFiles == {"cert_path", "key_path", "ca_path"}

\* _validate_config: an endpoint and the three files
ValidateConfig(self) ==
    /\ self.endpoint # ""
    /\ "cert_path" \in self.exists
    /\ "key_path" \in self.exists
    /\ "ca_path" \in self.exists

InitIoT ==
    /\ SocketIdle /\ PrefectIdle /\ SessionsIdle /\ SlackIdle /\ WorkerIdle /\ MqttIdle
    /\ iot \in [endpoint : {"", "host"}, exists : SUBSET CertFiles,
                max_retries : RetryCounts, retry_delay : RetryDelays,
                connection_error : {<<>>}]
    /\ iot_pc = "connect"
    /\ attempt = 0
    /\ iot_ret = <<>>
    /\ iot_trace = <<>>

\* connect() returns v
IoTReturn(v) ==
    /\ iot_ret' = <<v>>
    /\ iot_pc' = "returned"

\* for attempt in range(self.max_retries), about to bind a; past the range
\* the loop is left and connect() returns False
IoTForAttempt(a) ==
    IF a < iot.max_retries
    THEN attempt' = a /\ iot_pc' = "_setup_ssl" /\ UNCHANGED iot_ret
    ELSE IoTReturn(FALSE) /\ UNCHANGED attempt

\* a slip that takes the attempt after the last one for the last
IsLastAttemptLate(a, max_retries) == a = max_retries

\* if attempt == self.max_retries - 1
IsLastAttempt(a, max_retries) == a = max_retries - 1

\* except Exception as e: the attempt has failed
IoTExcept(e) ==
    /\ iot' = [iot EXCEPT !.connection_error = <<e>>]
    /\ iot_trace' = Append(iot_trace, <<"failed", attempt>>)
    /\ IF IsLastAttempt(attempt, iot.max_retries)
       THEN IoTReturn(FALSE)
       ELSE iot_pc' = "sleep" /\ UNCHANGED iot_ret
    /\ UNCHANGED attempt

IoTValidate ==
    /\ iot_pc = "connect"
    /\ IF ~ValidateConfig(iot)
       THEN IoTReturn(FALSE) /\ UNCHANGED attempt
       ELSE IoTForAttempt(0)
    /\ UNCHANGED <<socketVars, prefectVars, sessionVars, slackVars, workerVars, mqttVars, iot, iot_trace>>

IoTSetupSsl ==
    /\ iot_pc = "_setup_ssl"
    /\ \E o \in CallOutcomes :
          IF o = "ok"
          THEN iot_pc' = "client.connect" /\ UNCHANGED <<iot, attempt, iot_ret, iot_trace>>
          ELSE IoTExcept("tls_set")
    /\ UNCHANGED <<socketVars, prefectVars, sessionVars, slackVars, workerVars, mqttVars>>

IoTClientConnect ==
    /\ iot_pc = "client.connect"
    /\ \E o \in CallOutcomes :
          IF o = "ok"
          THEN iot_pc' = "loop_start" /\ UNCHANGED <<iot, attempt, iot_ret, iot_trace>>
          ELSE IoTExcept("connect")
    /\ UNCHANGED <<socketVars, prefectVars, sessionVars, slackVars, workerVars, mqttVars>>

IoTLoopStart ==
    /\ iot_pc = "loop_start"
    /\ \E o \in CallOutcomes :
          IF o = "ok"
          THEN /\ iot_trace' = Append(iot_trace, <<"succeeded", attempt>>)
               /\ IoTReturn(TRUE)
               /\ UNCHANGED <<iot, attempt>>
          ELSE IoTExcept("loop_start")
    /\ UNCHANGED <<socketVars, prefectVars, sessionVars, slackVars, workerVars, mqttVars>>

\* time.sleep(self.retry_delay), then the next turn of the loop
IoTSleep ==
    /\ iot_pc = "sleep"
    /\ iot_trace' = Append(iot_trace, <<"sleep", iot.retry_delay>>)
    /\ IoTForAttempt(attempt + 1)
    /\ UNCHANGED <<socketVars, prefectVars, sessionVars, slackVars, workerVars, mqttVars, iot>>

NextIoT ==
    \/ IoTValidate
    \/ IoTSetupSsl
    \/ IoTClientConnect
    \/ IoTLoopStart
    \/ IoTSleep

SpecIoT == InitIoT /\ [][NextIoT]_vars

\* the attempts of a trace, and whether its i-th entry is one
IsAttempt(ev) == ev[1] \in {"failed", "succeeded"}
AttemptsIn(trace) == Cardinality({i \in 1..Len(trace) : IsAttempt(trace[i])})

\* attempts and sleeps alternate, starting with an attempt; every sleep
\* lasts delay; only the last entry can be a success
RetryShape(trace, delay) ==
    \A i \in 1..Len(trace) :
        /\ i % 2 = 1 => IsAttempt(trace[i])
        /\ i % 2 = 0 => trace[i] = <<"sleep", delay>>
        /\ i < Len(trace) => trace[i][1] # "succeeded"

(***************************************************************************)
(* C19  Retry shape of AWSIoTClient.connect with a valid configuration:    *)
(* at most max_retries attempts, a sleep of retry_delay after each failed  *)
(* attempt but the last, True at the first attempt that succeeds and       *)
(* nothing after it, False once max_retries attempts have failed, with no  *)
(* sleep after the last of them.                                           *)
(***************************************************************************)
C19_RetryShape ==
    iot_pc # "" /\ ValidateConfig(iot) =>
        /\ RetryShape(iot_trace, iot.retry_delay)
        /\ AttemptsIn(iot_trace) <= iot.max_retries
        /\ iot_trace # <<>> /\ iot_trace[Len(iot_trace)][1] = "succeeded" =>
              iot_ret = <<TRUE>>
        /\ iot_ret = <<TRUE>> =>
              iot_trace # <<>> /\ iot_trace[Len(iot_trace)][1] = "succeeded"
        /\ iot_ret = <<FALSE>> =>
              /\ AttemptsIn(iot_trace) = iot.max_retries
              /\ iot_trace = <<>> \/ iot_trace[Len(iot_trace)][1] = "failed"
        /\ AttemptsIn(iot_trace) = iot.max_retries
              /\ (iot_trace = <<>> \/ iot_trace[Len(iot_trace)][1] = "failed")
              /\ iot_pc # "connect" =>
              iot_ret = <<FALSE>>
        /\ iot_pc = "returned" <=> iot_ret # <<>>

C19_Witness ==
    /\ ValidateConfig(iot) /\ iot.max_retries = 3 /\ iot.retry_delay = 5
    /\ iot_ret = <<FALSE>>
    /\ Len(iot_trace) = 5

(***************************************************************************)
(* PrefectClient.run_workflow                                              *)
(***************************************************************************)
\* what the workflow function may return (None among them) or raise
WorkflowResults == {"None", "result"}
WorkflowErrors == {"IOError", "KeyError"}

InitPrefect ==
    /\ SocketIdle /\ IoTIdle /\ SessionsIdle /\ SlackIdle /\ WorkerIdle /\ MqttIdle
    /\ prefect \in [max_retries : RetryCounts, retry_delay : RetryDelays]
    /\ wf_pc = "run_workflow"
    /\ wf_attempt = 0
    /\ wf_ret = <<>>
    /\ wf_exc = <<>>
    /\ wf_trace = <<>>

\* for attempt in range(self.max_retries), about to bind a; past the range
\* the function body ends, which returns None
WfForAttempt(a) ==
    IF a < prefect.max_retries
    THEN wf_attempt' = a /\ wf_pc' = "workflow_func" /\ UNCHANGED wf_ret
    ELSE wf_ret' = <<"None">> /\ wf_pc' = "returned" /\ UNCHANGED wf_attempt

\* if attempt == self.max_retries - 1
IsLastInvocation(a, max_retries) == a = max_retries - 1

WfEnter ==
    /\ wf_pc = "run_workflow"
    /\ WfForAttempt(0)
    /\ UNCHANGED <<socketVars, iotVars, sessionVars, slackVars, workerVars, mqttVars, prefect, wf_exc, wf_trace>>

\* return workflow_func(*args, **kwargs), or the except clause
WfInvoke ==
    /\ wf_pc = "workflow_func"
    /\ \/ \E r \in WorkflowResults :
             /\ wf_trace' = Append(wf_trace, <<"succeeded", r>>)
             /\ wf_ret' = <<r>>
             /\ wf_pc' = "returned"
             /\ UNCHANGED wf_exc
       \/ \E e \in WorkflowErrors :
             /\ wf_trace' = Append(wf_trace, <<"failed", e>>)
             /\ IF IsLastInvocation(wf_attempt, prefect.max_retries)
                THEN wf_exc' = <<e>> /\ wf_pc' = "raised"
                ELSE wf_pc' = "sleep" /\ UNCHANGED wf_exc
             /\ UNCHANGED wf_ret
    /\ UNCHANGED <<socketVars, iotVars, sessionVars, slackVars, workerVars, mqttVars, prefect, wf_attempt>>

\* time.sleep(self.retry_delay), then the next turn of the loop
WfSleep ==
    /\ wf_pc = "sleep"
    /\ wf_trace' = Append(wf_trace, <<"sleep", prefect.retry_delay>>)
    /\ WfForAttempt(wf_attempt + 1)
    /\ UNCHANGED <<socketVars, iotVars, sessionVars, slackVars, workerVars, mqttVars, prefect, wf_exc>>

NextPrefect ==
    \/ WfEnter
    \/ WfInvoke
    \/ WfSleep

SpecPrefect == InitPrefect /\ [][NextPrefect]_vars

(***************************************************************************)
(* C20  Retry shape of run_workflow, its last part as claimed: for any     *)
(* configured max_retries, run_workflow returns normally only after an     *)
(* invocation of the workflow function succeeded, and returns that         *)
(* invocation's result.                                                    *)
(***************************************************************************)
C20_ReturnsOnlyAfterSuccess ==
    wf_pc = "returned" =>
        /\ wf_trace # <<>>
        /\ wf_trace[Len(wf_trace)] = <<"succeeded", wf_ret[1]>>

(***************************************************************************)
(* Concurrent sessions.  Two transfers run the receiving functions, each   *)
(* on its own socket, their socket operations interleaved in any order.    *)
(* Each peer has written its stream and closed, so every recv returns.     *)
(* The functions keep their state in locals: each running call has a frame *)
(* of its own.                                                             *)
(***************************************************************************)
Sessions == {1, 2}

\* the chunk sizes the sessions' callers hand to receive_file
SessionChunkSizes == {1, 2}

\* what the two peers send: names 'a' and 'b', payloads that differ
SessionNames == {<<97>>, <<98>>}
SessionPayloads == {<<>>, <<104>>, <<105, NL>>}

\* a Sender's whole frame for name n and payload p
SenderFrame(n, p) == Utf8Encode(NameMessage(n)) \o Utf8Encode(SizeMessage(Len(p))) \o p

Prefixes(s) == {SubSeq(s, 1, k) : k \in 0..Len(s)}

\* the streams a session may get: a frame, a frame cut short by the close,
\* a name that is not UTF-8, a size that is not a number
SessionStreams ==
    UNION {Prefixes(SenderFrame(n, p)) : n \in SessionNames, p \in SessionPayloads}
        \cup {<<195, NL>>, <<97, NL, 97, NL>>}

\* the locals of _recv_until_newline and receive_file as a call starts
NewFrame ==
    [data_chunks |-> <<>>, file_size |-> 0, chunk_size |-> 0,
     received_file |-> <<>>, bytes_received |-> 0]

\* a slip that keeps the locals in one module-level place
SharedFrame(s) == 1

\* the frame session s's running call works in: its own
Frame(s) == s

InitSessions ==
    /\ SocketIdle /\ IoTIdle /\ PrefectIdle /\ SlackIdle /\ WorkerIdle /\ MqttIdle
    /\ socks \in [Sessions -> {[wire |-> w, sent |-> w] : w \in SessionStreams}]
    /\ frames = [s \in Sessions |-> NewFrame]
    /\ at = [s \in Sessions |-> [fn |-> ReceiverSequence[2], rpc |-> "recv"]]
    /\ got = [s \in Sessions |-> [rname |-> <<>>, rsize |-> <<>>, rbody |-> <<>>, exc |-> NoExc]]

\* one turn of _recv_until_newline's loop on stream w with data_chunks dc
SessionRecvUntilNewline(w, dc) ==
    IF w = <<>>
    THEN [kind |-> "return", text |-> <<>>]
    ELSE IF Head(w) = NL
    THEN LET d == Utf8Decode(dc)
         IN  IF d.ok THEN [kind |-> "return", text |-> d.text]
             ELSE [kind |-> "raise", text |-> <<>>]
    ELSE [kind |-> "loop", text |-> <<>>]

\* session s's socket after a recv that took k bytes
SessionTake(s, k) ==
    [socks EXCEPT ![s].wire = SubSeq(socks[s].wire, k + 1, Len(socks[s].wire))]

\* session s's call raises e
SessionRaise(s, e) ==
    /\ at' = [at EXCEPT ![s].rpc = "raised"]
    /\ got' = [got EXCEPT ![s].exc = e]

SessionReceiveFileName(s) ==
    /\ at[s] = [fn |-> "receive_file_name", rpc |-> "recv"]
    /\ LET w == socks[s].wire
           r == SessionRecvUntilNewline(w, frames[Frame(s)].data_chunks)
       IN  /\ socks' = SessionTake(s, IF w = <<>> THEN 0 ELSE 1)
           /\ CASE r.kind = "loop" ->
                     /\ frames' = [frames EXCEPT ![Frame(s)].data_chunks = Append(@, Head(w))]
                     /\ UNCHANGED <<at, got>>
                [] r.kind = "return" ->
                     /\ got' = [got EXCEPT ![s].rname = <<r.text>>]
                     /\ at' = [at EXCEPT ![s].fn = ReceiverSequence[3]]
                     /\ frames' = [frames EXCEPT ![Frame(s)].data_chunks = <<>>]
                [] r.kind = "raise" ->
                     /\ SessionRaise(s, Exc("UnicodeDecodeError"))
                     /\ UNCHANGED frames
    /\ UNCHANGED <<socketVars, iotVars, prefectVars, slackVars, workerVars, mqttVars>>

SessionReceiveFileSize(s) ==
    /\ at[s] = [fn |-> "receive_file_size", rpc |-> "recv"]
    /\ LET w == socks[s].wire
           r == SessionRecvUntilNewline(w, frames[Frame(s)].data_chunks)
       IN  /\ socks' = SessionTake(s, IF w = <<>> THEN 0 ELSE 1)
           /\ CASE r.kind = "loop" ->
                     /\ frames' = [frames EXCEPT ![Frame(s)].data_chunks = Append(@, Head(w))]
                     /\ UNCHANGED <<at, got>>
                [] r.kind = "return" ->
                     LET file_size_ == ParseFileSize(r.text)
                     IN  IF file_size_ # <<>>
                         THEN /\ got' = [got EXCEPT ![s].rsize = file_size_]
                              /\ at' = [at EXCEPT ![s] = [fn |-> ReceiverSequence[4], rpc |-> "call"]]
                              /\ frames' = [frames EXCEPT ![Frame(s)].data_chunks = <<>>]
                         ELSE /\ SessionRaise(s, [type |-> "ValueError", args |-> <<r.text>>])
                              /\ UNCHANGED frames
                [] r.kind = "raise" ->
                     /\ SessionRaise(s, Exc("UnicodeDecodeError"))
                     /\ UNCHANGED frames
    /\ UNCHANGED <<socketVars, iotVars, prefectVars, slackVars, workerVars, mqttVars>>

SessionReceiveFileCall(s) ==
    /\ at[s] = [fn |-> "receive_file", rpc |-> "call"]
    /\ \E cs \in SessionChunkSizes :
          frames' = [frames EXCEPT ![Frame(s)] =
                        [@ EXCEPT !.chunk_size = cs, !.file_size = got[s].rsize[1],
                                  !.received_file = <<>>, !.bytes_received = 0]]
    /\ at' = [at EXCEPT ![s].rpc = "loop"]
    /\ UNCHANGED <<socketVars, iotVars, prefectVars, slackVars, workerVars, mqttVars, socks, got>>

SessionReceiveFileLoop(s) ==
    /\ at[s] = [fn |-> "receive_file", rpc |-> "loop"]
    /\ LET f == frames[Frame(s)]
           w == socks[s].wire
           request == Min(f.chunk_size, f.file_size - f.bytes_received)
       IN  /\ f.bytes_received < f.file_size
           /\ \E k \in (IF request = 0 \/ w = <<>> THEN {0} ELSE 1..Min(request, Len(w))) :
                 LET chunk == SubSeq(w, 1, k)
                 IN  /\ socks' = SessionTake(s, k)
                     /\ IF NotChunk(chunk)
                        THEN /\ SessionRaise(s, Exc("ConnectionError"))
                             /\ UNCHANGED frames
                        ELSE /\ frames' = [frames EXCEPT ![Frame(s)] =
                                     [@ EXCEPT !.received_file = Accumulate(f.received_file, chunk),
                                               !.bytes_received = f.bytes_received + Len(chunk)]]
                             /\ UNCHANGED <<at, got>>
    /\ UNCHANGED <<socketVars, iotVars, prefectVars, slackVars, workerVars, mqttVars>>

SessionReceiveFileReturn(s) ==
    /\ at[s] = [fn |-> "receive_file", rpc |-> "loop"]
    /\ ~(frames[Frame(s)].bytes_received < frames[Frame(s)].file_size)
    /\ got' = [got EXCEPT ![s].rbody = <<frames[Frame(s)].received_file>>]
    /\ at' = [at EXCEPT ![s].rpc = "done"]
    /\ UNCHANGED <<socketVars, iotVars, prefectVars, slackVars, workerVars, mqttVars, socks, frames>>

NextSessions ==
    \/ \E s \in Sessions : SessionReceiveFileName(s)
    \/ \E s \in Sessions : SessionReceiveFileSize(s)
    \/ \E s \in Sessions : SessionReceiveFileCall(s)
    \/ \E s \in Sessions : SessionReceiveFileLoop(s)
    \/ \E s \in Sessions : SessionReceiveFileReturn(s)

SpecSessions == InitSessions /\ [][NextSessions]_vars

\* what the receiving sequence gives on stream s when it runs alone, the
\* peer having written s and closed: the name, size and body returned and
\* the exception raised, read off s itself
AloneAfterName(s, name) ==
    LET e1 == LineEnd(s, 1)
        e2 == LineEnd(s, 2)
        d2 == IF e1 = 0 \/ e2 = 0 THEN [ok |-> TRUE, text |-> <<>>]
              ELSE Utf8Decode(Line(s, 2))
        size == IF d2.ok THEN ParseFileSize(d2.text) ELSE <<>>
        rest == IF e2 = 0 THEN <<>> ELSE SubSeq(s, e2 + 1, Len(s))
    IN  IF ~d2.ok
        THEN [rname |-> name, rsize |-> <<>>, rbody |-> <<>>,
              exc |-> Exc("UnicodeDecodeError")]
        ELSE IF size = <<>>
        THEN [rname |-> name, rsize |-> <<>>, rbody |-> <<>>,
              exc |-> [type |-> "ValueError", args |-> <<d2.text>>]]
        ELSE IF size[1] > Len(rest)
        THEN [rname |-> name, rsize |-> size, rbody |-> <<>>,
              exc |-> Exc("ConnectionError")]
        ELSE [rname |-> name, rsize |-> size,
              rbody |-> <<IF size[1] > 0 THEN SubSeq(rest, 1, size[1]) ELSE <<>> >>,
              exc |-> NoExc]

Alone(s) ==
    LET e1 == LineEnd(s, 1)
        d1 == IF e1 = 0 THEN [ok |-> TRUE, text |-> <<>>] ELSE Utf8Decode(Line(s, 1))
    IN  IF ~d1.ok
        THEN [rname |-> <<>>, rsize |-> <<>>, rbody |-> <<>>,
              exc |-> Exc("UnicodeDecodeError")]
        ELSE AloneAfterName(s, <<d1.text>>)

SessionFinished(s) == at[s].rpc \in {"done", "raised"}

\* whatever session s has produced so far is what it produces alone, and
\* when it has finished it has produced all of that
SameAsAlone ==
    \A s \in Sessions :
        LET alone == Alone(socks[s].sent)
        IN  /\ got[s].rname # <<>> => got[s].rname = alone.rname
            /\ got[s].rsize # <<>> => got[s].rsize = alone.rsize
            /\ got[s].rbody # <<>> => got[s].rbody = alone.rbody
            /\ got[s].exc # NoExc => got[s].exc = alone.exc
            /\ SessionFinished(s) => got[s] = alone

\* a step is one session's: every other session's socket, frame, position
\* and results are as before
OneSessionSteps ==
    \E s \in Sessions : \A t \in Sessions \ {s} :
        /\ socks'[t] = socks[t]
        /\ frames'[t] = frames[t]
        /\ at'[t] = at[t]
        /\ got'[t] = got[t]

(***************************************************************************)
(* C18  Session isolation: two transfers running concurrently on two       *)
(* sessions, their socket operations interleaved in any order, each        *)
(* produce the name, size and body (or the failure) they produce alone,    *)
(* and no step of one session reads or changes the socket, the locals or   *)
(* the results of the other.                                               *)
(***************************************************************************)
C18_SessionIsolation == []SameAsAlone /\ [][OneSessionSteps]_vars

C18_Witness ==
    /\ at[1] = [fn |-> "receive_file", rpc |-> "loop"]
    /\ frames[1].file_size = 2 /\ frames[1].bytes_received = 1
    /\ at[2] = [fn |-> "receive_file_size", rpc |-> "recv"]
    /\ frames[2].data_chunks = <<49>>
    /\ got[1].rname = <<<<97>>>> /\ got[2].rname = <<<<98>>>>

(***************************************************************************)
(* C23  The line read takes from the stream the bytes up to and including  *)
(* the first newline and none after it, and returns the bytes before that  *)
(* newline: while the size line is being read the client has consumed the  *)
(* name line, its newline and the size bytes kept so far; once both lines  *)
(* are returned it has consumed exactly the two lines, and everything the  *)
(* sender wrote after the size line is still on the stream for             *)
(* receive_file.                                                           *)
(***************************************************************************)
C23_LineReadConsumes ==
    /\ fn = "receive_file_name" /\ rpc = "recv" =>
          /\ Consumed = Len(data_chunks)
          /\ data_chunks = SubSeq(sent, 1, Consumed)
    /\ rname # <<>> /\ ~NameCutShort =>
          rname = <<Utf8Decode(Line(sent, 1)).text>>
    /\ fn = "receive_file_size" /\ rpc = "recv" /\ ~NameCutShort =>
          /\ Consumed = LineEnd(sent, 1) + Len(data_chunks)
          /\ data_chunks = SubSeq(sent, LineEnd(sent, 1) + 1, Consumed)
    /\ fn = "receive_file" /\ rpc = "call" =>
          /\ BodyOffset > 0
          /\ Consumed = BodyOffset
          /\ wire = SubSeq(sent, BodyOffset + 1, Len(sent))
          /\ rsize = ParseFileSize(Utf8Decode(Line(sent, 2)).text)

C23_Witness ==
    /\ fn = "receive_file" /\ rpc = "call"
    /\ rsize = <<3>> /\ Len(wire) = 3 /\ wire[3] = NL

\* a step in which the client's recv took bytes from the stream during
\* the body loop, and how many
BodyRead == fn = "receive_file" /\ rpc = "loop" /\ Len(wire') < Len(wire)
Taken == Len(wire) - Len(wire')

(***************************************************************************)
(* C24  Partial reads: a read of the body loop that returns any number of  *)
(* bytes from 1 up to the request is no error; the bytes are appended to   *)
(* what was received, the count grows by as many and the loop goes on.     *)
(* The body returned is what the reads delivered, in arrival order: the    *)
(* bytes of the stream after the size line, none lost, doubled or moved.   *)
(***************************************************************************)
C24_PartialReads ==
    /\ [][BodyRead =>
            /\ Taken <= Request
            /\ rpc' = "loop" /\ exc' = exc
            /\ received_file' = received_file \o SubSeq(wire, 1, Taken)
            /\ bytes_received' = bytes_received + Taken]_vars
    /\ [](Returned => /\ rbody = <<received_file>>
                      /\ Len(received_file) = bytes_received
                      /\ received_file = SubSeq(sent, BodyOffset + 1, Consumed))

C24_Witness ==
    /\ Returned /\ chunk_size = 3 /\ requests = <<3, 2, 1>>
    /\ rbody = <<P>> /\ P = <<104, NL, 104>>

(***************************************************************************)
(* The socket specification with the scheduling the body loop relies on:   *)
(* the client keeps running its loop, and the peer keeps going, to the end *)
(* of what it sends and to its close, so that every read returns in the    *)
(* end, with bytes or with none on closure.                                *)
(***************************************************************************)
PeerGoesOn == SendFileName \/ SendFileSize \/ SendBody \/ PeerClose

SpecLive ==
    /\ Spec
    /\ WF_vars(ReceiveFileLoop)
    /\ WF_vars(ReceiveFileReturn)
    /\ WF_vars(PeerGoesOn)

\* the client is in the body loop, called with a chunk size of at least 1
InBodyLoop == fn = "receive_file" /\ rpc = "loop" /\ chunk_size >= 1

\* a turn of the body loop that did not fail
TurnTaken == InBodyLoop /\ requests' # requests /\ rpc' = "loop"

(***************************************************************************)
(* C25  Termination of the body loop: when every read returns in the end,  *)
(* receive_file called with a chunk size of at least 1 leaves its loop,    *)
(* whatever the declared size, by returning or by raising Connection Lost; *)
(* every turn of the loop that does not fail makes bytes_received larger.  *)
(***************************************************************************)
C25_BodyLoopTerminates ==
    /\ InBodyLoop ~> (Returned \/ ConnectionLost)
    /\ [][TurnTaken => bytes_received' > bytes_received]_vars

C25_Witness ==
    /\ ConnectionLost /\ chunk_size = 2 /\ file_size = 5
    /\ Len(requests) = 4 /\ bytes_received = 3

(***************************************************************************)
(* C26  A declared size of 0: receive_file asks the session for nothing    *)
(* and takes nothing from the stream, does not raise Connection Lost, and  *)
(* returns the empty body, also when the peer has closed already; a step   *)
(* of the client in its loop is then the return.                           *)
(***************************************************************************)
C26_ZeroSize ==
    /\ [](InReceiveFile /\ file_size = 0 =>
            /\ requests = <<>>
            /\ Consumed = BodyOffset
            /\ ~ConnectionLost
            /\ rpc = "raised" => logger # "ok"
            /\ Returned => rbody = <<<<>>>>)
    /\ [][fn = "receive_file" /\ rpc = "loop" /\ file_size = 0 /\ rpc' # rpc =>
            rpc' = "done" /\ rbody' = <<<<>>>> /\ wire' = wire]_vars

C26_Witness ==
    /\ Returned /\ file_size = 0 /\ closed /\ wire = <<>>
    /\ rbody = <<<<>>>> /\ requests = <<>> /\ exc = NoExc

(***************************************************************************)
(* slack_bot.await_approval_response, and prefect_orchestrator's           *)
(* request_slack_approval and example_approval_flow above it.  A dict is   *)
(* modelled by its keys; the clock is in seconds.  The history that a poll *)
(* gets back holds the approval message, with its reactions in order.      *)
(***************************************************************************)
Entries == {"example_approval_flow", "await_approval_response"}

\* the timeout_seconds a direct caller passes
TimeoutSeconds == {0, 7, 10, DefaultTimeout}
\* time.time() as the call starts, and the seconds a poll may take
StartTimes == {0, 3}
PollDurations == {0, 2}

Reactions == {"+1", "-1", "eyes"}
ReactionLists == SeqsUpTo(Reactions, MaxReactions)

\* what slack_client.chat_postMessage may do: raise, or return data
PostOutcomes == {"SlackApiError", "posted", "no_ts"}

\* ask_for_approval: the response data, {} on SlackApiError
AskForApproval(o) ==
    CASE o = "SlackApiError" -> {}
      [] o = "posted" -> {"ts", "channel"}
      [] o = "no_ts" -> {"channel"}

\* for reaction in message['reactions']: the first '+1' or '-1' decides
RECURSIVE FirstDecision(_)
FirstDecision(reactions) ==
    IF reactions = <<>> THEN ""
    ELSE IF Head(reactions) = "+1" THEN "approved"
    ELSE IF Head(reactions) = "-1" THEN "denied"
    ELSE FirstDecision(Tail(reactions))

\* a slip that polls once more when the time is just up
WithinTimeoutInclusive(elapsed, limit) == elapsed <= limit

\* while time.time() - start_time < timeout_seconds
WithinTimeout(elapsed, limit) == elapsed < limit

\* a slip that deploys unless the user said no
NotDenied(decision) == decision # "denied"

\* if approval_decision == "approved"
Approved(decision) == decision = "approved"

InitSlack ==
    /\ SocketIdle /\ IoTIdle /\ PrefectIdle /\ SessionsIdle /\ WorkerIdle /\ MqttIdle
    /\ slack_client \in BOOLEAN
    /\ entry \in Entries
    /\ ap_pc = (IF entry = "example_approval_flow" THEN "request_slack_approval" ELSE entry)
    /\ timeout_seconds \in (IF entry = "example_approval_flow" THEN {DefaultTimeout}
                                                             ELSE TimeoutSeconds)
    /\ now \in StartTimes
    /\ start_time = 0
    /\ response_data = {}
    /\ message = <<>>
    /\ api_errors = FALSE
    /\ await_ret = <<>>
    /\ approval_decision = <<>>
    /\ deployed = 0
    /\ slack_messages = <<>>

\* request_slack_approval up to its call of await_approval_response
RequestSlackApproval ==
    /\ ap_pc = "request_slack_approval"
    /\ \E o \in PostOutcomes :
          /\ response_data' = (IF ~slack_client THEN {} ELSE AskForApproval(o))
          /\ IF response_data' = {} \/ "ts" \notin response_data'
             THEN approval_decision' = <<"error">> /\ ap_pc' = "branch"
             ELSE ap_pc' = "await_approval_response" /\ UNCHANGED approval_decision
    /\ UNCHANGED <<socketVars, iotVars, prefectVars, sessionVars, workerVars, mqttVars,
                   slack_client, entry, timeout_seconds, start_time, now, message,
                   api_errors, await_ret, deployed, slack_messages>>

\* await_approval_response returns v: to its direct caller, or through
\* request_slack_approval, which returns it as the decision
AwaitReturn(v) ==
    /\ await_ret' = <<v>>
    /\ IF entry = "await_approval_response"
       THEN ap_pc' = "returned" /\ UNCHANGED approval_decision
       ELSE ap_pc' = "branch" /\ approval_decision' = <<v>>

AwaitEnter ==
    /\ ap_pc = "await_approval_response"
    /\ IF ~slack_client
       THEN AwaitReturn("timeout") /\ UNCHANGED start_time
       ELSE /\ start_time' = now
            /\ ap_pc' = "test"
            /\ UNCHANGED <<await_ret, approval_decision>>
    /\ UNCHANGED <<socketVars, iotVars, prefectVars, sessionVars, workerVars, mqttVars,
                   slack_client, entry, response_data, timeout_seconds, now, message,
                   api_errors, deployed, slack_messages>>

\* the while test
AwaitTest ==
    /\ ap_pc = "test"
    /\ IF WithinTimeout(now - start_time, timeout_seconds)
       THEN ap_pc' = "poll" /\ UNCHANGED <<await_ret, approval_decision>>
       ELSE AwaitReturn("timeout")
    /\ UNCHANGED <<socketVars, iotVars, prefectVars, sessionVars, workerVars, mqttVars,
                   slack_client, entry, response_data, timeout_seconds, start_time, now,
                   message, api_errors, deployed, slack_messages>>

\* one conversations_history call and the look at its reactions
AwaitPoll ==
    /\ ap_pc = "poll"
    /\ \E d \in PollDurations : now' = now + d
    /\ \/ /\ message' = <<"SlackApiError", <<>> >>
          /\ api_errors' = TRUE
          /\ ap_pc' = "sleep"
          /\ UNCHANGED <<await_ret, approval_decision>>
       \/ \E reactions \in ReactionLists :
             /\ message' = <<"message", reactions>>
             /\ IF FirstDecision(reactions) # ""
                THEN AwaitReturn(FirstDecision(reactions))
                ELSE ap_pc' = "sleep" /\ UNCHANGED <<await_ret, approval_decision>>
             /\ UNCHANGED api_errors
    /\ UNCHANGED <<socketVars, iotVars, prefectVars, sessionVars, workerVars, mqttVars,
                   slack_client, entry, response_data, timeout_seconds, start_time,
                   deployed, slack_messages>>

\* time.sleep(5)
AwaitSleep ==
    /\ ap_pc = "sleep"
    /\ now' = now + PollInterval
    /\ ap_pc' = "test"
    /\ UNCHANGED <<socketVars, iotVars, prefectVars, sessionVars, workerVars, mqttVars,
                   slack_client, entry, response_data, timeout_seconds, start_time,
                   message, api_errors, await_ret, approval_decision, deployed,
                   slack_messages>>

\* what example_approval_flow tells the channel for a decision
Notice(decision) ==
    IF decision = "approved" THEN "Approval received"
    ELSE IF decision = "denied" THEN "denied by user"
    ELSE "timed out or failed"

\* the flow's if / elif / else and its send_slack_message, which sends
\* nothing without a client or on SlackApiError
FlowBranch ==
    /\ ap_pc = "branch"
    /\ \E o \in {"posted", "SlackApiError"} :
          slack_messages' = (IF slack_client /\ o = "posted"
                             THEN Append(slack_messages, Notice(approval_decision[1]))
                             ELSE slack_messages)
    /\ ap_pc' = (IF Approved(approval_decision[1]) THEN "deploy_task_to_worker" ELSE "done")
    /\ UNCHANGED <<socketVars, iotVars, prefectVars, sessionVars, workerVars, mqttVars,
                   slack_client, entry, response_data, timeout_seconds, start_time, now,
                   message, api_errors, await_ret, approval_decision, deployed>>

\* deploy_task_to_worker(worker_address, command), which may raise
FlowDeploy ==
    /\ ap_pc = "deploy_task_to_worker"
    /\ deployed' = deployed + 1
    /\ \E o \in CallOutcomes : ap_pc' = (IF o = "ok" THEN "done" ELSE "raised")
    /\ UNCHANGED <<socketVars, iotVars, prefectVars, sessionVars, workerVars, mqttVars,
                   slack_client, entry, response_data, timeout_seconds, start_time, now,
                   message, api_errors, await_ret, approval_decision, slack_messages>>

NextSlack ==
    \/ RequestSlackApproval
    \/ AwaitEnter
    \/ AwaitTest
    \/ AwaitPoll
    \/ AwaitSleep
    \/ FlowBranch
    \/ FlowDeploy

SpecSlack == InitSlack /\ [][NextSlack]_vars

Decisions == {"approved", "denied", "timeout"}
Waiting == ap_pc \in {"test", "poll", "sleep"}
Elapsed == now - start_time
Saw(name) ==
    /\ message # <<>> /\ message[1] = "message"
    /\ \E i \in 1..Len(message[2]) : message[2][i] = name

(***************************************************************************)
(* C21  await_approval_response returns 'approved', 'denied' or 'timeout': *)
(* 'approved' ('denied') only when its latest poll saw a '+1' ('-1')       *)
(* reaction on the message; 'timeout' when there is no Slack client, or    *)
(* when timeout_seconds have elapsed and the latest poll brought no such   *)
(* reaction.  No poll starts once the elapsed time has reached             *)
(* timeout_seconds, and a poll that ends in a Slack API error is followed  *)
(* by the sleep and the next test, not by a return.                        *)
(***************************************************************************)
C21_AwaitApproval ==
    /\ [](/\ await_ret # <<>> => await_ret[1] \in Decisions
          /\ Waiting => await_ret = <<>>
          /\ await_ret = <<"approved">> => Saw("+1")
          /\ await_ret = <<"denied">> => Saw("-1")
          /\ await_ret = <<"timeout">> =>
                \/ ~slack_client
                \/ /\ Elapsed >= timeout_seconds
                   /\ message # <<>> => FirstDecision(message[2]) = ""
          /\ ap_pc = "poll" => Elapsed < timeout_seconds)
    /\ [][ap_pc = "poll" /\ message'[1] = "SlackApiError" =>
            ap_pc' = "sleep" /\ await_ret' = <<>>]_vars

C21_Witness ==
    /\ entry = "await_approval_response" /\ timeout_seconds = 10
    /\ await_ret = <<"approved">> /\ api_errors /\ Elapsed >= PollInterval
    /\ message = <<"message", <<"eyes", "+1">> >>

(***************************************************************************)
(* C22  As claimed: whatever comes of posting the approval message and of  *)
(* the wait, request_slack_approval returns the user's decision, one of    *)
(* 'approved', 'denied' and 'timeout'.                                     *)
(***************************************************************************)
C22_ReturnsDecision == approval_decision # <<>> => approval_decision[1] \in Decisions

(***************************************************************************)
(* C27  example_approval_flow invokes deploy_task_to_worker only after     *)
(* request_slack_approval returned 'approved'; when it returned 'denied',  *)
(* 'timeout' or 'error' the flow ends with nothing deployed.               *)
(***************************************************************************)
C27_DeployOnlyApproved ==
    /\ deployed > 0 \/ ap_pc = "deploy_task_to_worker" => approval_decision = <<"approved">>
    /\ approval_decision # <<>> /\ approval_decision # <<"approved">> =>
          deployed = 0 /\ ap_pc \in {"branch", "done"}

C27_Witness ==
    /\ entry = "example_approval_flow" /\ deployed = 1 /\ ap_pc = "done"
    /\ approval_decision = <<"approved">> /\ Saw("+1")
    /\ slack_messages = <<"Approval received">>

(***************************************************************************)
(* prefect_worker.execute_remote_task, run as the worker's main program.   *)
(* A printed JSON object is the record of its fields; the status of the    *)
(* process is the low byte of what sys.exit is given, 0 after a return.    *)
(***************************************************************************)
ArgWords == {"ls", "-l"}
CommandLines == {<<"worker.py">> \o args : args \in SeqsUpTo(ArgWords, MaxArgs)}

\* what the command leaves on its stdout and stderr
CommandOutputs == {"", "text"}
\* return codes of a failed command: exit codes, and minus a signal number
FailCodes == {1, 2, 255, 0 - 9}

\* subprocess.run(..., check=True): completed, CalledProcessError for a
\* non-zero return code, or another exception (the shell cannot be started,
\* the output is not text)
RunResults ==
    [kind : {"completed"}, returncode : {0}, stdout : CommandOutputs, stderr : CommandOutputs]
        \cup [kind : {"CalledProcessError"}, returncode : FailCodes,
              stdout : CommandOutputs, stderr : CommandOutputs]
        \cup [kind : {"Exception"}, returncode : {0}, stdout : {""}, stderr : {""}]

\* json.dumps(output): the fields the orchestrator reads back
Json(status, text, result) ==
    [status |-> status, message |-> text,
     stdout |-> result.stdout, stderr |-> result.stderr, returncode |-> result.returncode]

NoResult == [kind |-> "", returncode |-> 0, stdout |-> "", stderr |-> ""]

\* the process status for sys.exit(code)
ProcessStatus(code) == code % 256

\* a slip that ends a failed run like a good one
ExitCodeIgnored(returncode) == 0

\* sys.exit(e.returncode)
ExitCodeOnFailure(returncode) == returncode

InitWorker ==
    /\ SocketIdle /\ IoTIdle /\ PrefectIdle /\ SessionsIdle /\ SlackIdle /\ MqttIdle
    /\ argv \in CommandLines
    /\ wk_pc = "execute_remote_task"
    /\ run_result = <<>>
    /\ stdout = <<>>
    /\ exit_status = <<>>

\* if len(sys.argv) < 2: print the error and exit; else run the command
WorkerStart ==
    /\ wk_pc = "execute_remote_task"
    /\ IF Len(argv) < 2
       THEN /\ stdout' = Append(stdout, Json("error", "No command provided.", NoResult))
            /\ exit_status' = <<ProcessStatus(1)>>
            /\ wk_pc' = "exited"
            /\ UNCHANGED run_result
       ELSE /\ \E r \in RunResults : run_result' = <<r>>
            /\ wk_pc' = "print"
            /\ UNCHANGED <<stdout, exit_status>>
    /\ UNCHANGED <<socketVars, iotVars, prefectVars, sessionVars, slackVars, mqttVars, argv>>

\* print(json.dumps(output)) on the path the run took
WorkerPrint ==
    /\ wk_pc = "print"
    /\ LET r == run_result[1]
       IN  stdout' = Append(stdout,
               CASE r.kind = "completed" -> Json("success", "", r)
                 [] r.kind = "CalledProcessError" ->
                        Json("error", "Command failed with a non-zero exit code.", r)
                 [] r.kind = "Exception" -> Json("error", "An unexpected error occurred", r))
    /\ wk_pc' = "end"
    /\ UNCHANGED <<socketVars, iotVars, prefectVars, sessionVars, slackVars, mqttVars,
                   argv, run_result, exit_status>>

\* the return after a good run, sys.exit(e.returncode), sys.exit(1)
WorkerEnd ==
    /\ wk_pc = "end"
    /\ LET r == run_result[1]
       IN  CASE r.kind = "completed" ->
                  wk_pc' = "returned" /\ exit_status' = <<0>>
             [] r.kind = "CalledProcessError" ->
                  /\ wk_pc' = "exited"
                  /\ exit_status' = <<ProcessStatus(ExitCodeOnFailure(r.returncode))>>
             [] r.kind = "Exception" ->
                  wk_pc' = "exited" /\ exit_status' = <<ProcessStatus(1)>>
    /\ UNCHANGED <<socketVars, iotVars, prefectVars, sessionVars, slackVars, mqttVars,
                   argv, run_result, stdout>>

NextWorker ==
    \/ WorkerStart
    \/ WorkerPrint
    \/ WorkerEnd

SpecWorker == InitWorker /\ [][NextWorker]_vars

WorkerEnded == wk_pc \in {"returned", "exited"}

(***************************************************************************)
(* C29  Worker feedback protocol: on each path of execute_remote_task (no  *)
(* command given, command succeeded, command exited non-zero, unexpected   *)
(* error) exactly one JSON object has been printed when it returns or      *)
(* exits, never more than one before, and the process status is non-zero   *)
(* exactly when the printed status is 'error'.                             *)
(***************************************************************************)
C29_WorkerFeedback ==
    /\ Len(stdout) <= 1
    /\ WorkerEnded =>
          /\ Len(stdout) = 1
          /\ stdout[1].status \in {"success", "error"}
          /\ exit_status[1] # 0 <=> stdout[1].status = "error"
          /\ stdout[1].status = "success" <=>
                run_result # <<>> /\ run_result[1].kind = "completed"
    /\ ~WorkerEnded => exit_status = <<>>

C29_Witness ==
    /\ wk_pc = "exited" /\ Len(argv) = 3
    /\ run_result[1].kind = "CalledProcessError" /\ run_result[1].returncode = 0 - 9
    /\ exit_status = <<247>> /\ stdout[1].status = "error" /\ stdout[1].returncode = 0 - 9

(***************************************************************************)
(* AWSIoTClient once connect() has returned True: loop_start() has started *)
(* paho's network thread, which delivers on_connect and on_disconnect on   *)
(* its own schedule, while the caller's thread calls subscribe and         *)
(* disconnect.  self.connected is written by both threads.                 *)
(***************************************************************************)
Topics == {"t1", "t2"}
Callbacks == {"cb1", "cb2"}

\* CONNACK return codes: accepted, or refused (5, not authorised)
ConnackCodes == {0, 5}

\* what self.client.subscribe may do: return (rc, mid), or raise
SubscribeOutcomes == {"MQTT_ERR_SUCCESS", "MQTT_ERR_NO_CONN", "raise"}

InitMqtt ==
    /\ SocketIdle /\ IoTIdle /\ PrefectIdle /\ SessionsIdle /\ SlackIdle /\ WorkerIdle
    /\ connected = FALSE
    /\ connection_error = ""
    /\ message_handlers = [topic \in Topics |-> ""]
    /\ loop_thread = TRUE
    /\ broker = "connecting"
    /\ mq_pc = "idle"
    /\ mq_call = <<>>
    /\ mq_before = message_handlers
    /\ mq_ret = ""
    /\ mq_calls = 0

\* _on_connect(rc), from the network thread when the CONNACK arrives
OnConnect ==
    /\ loop_thread /\ broker = "connecting"
    /\ \E rc \in ConnackCodes :
          IF rc = 0
          THEN connected' = TRUE /\ connection_error' = "" /\ broker' = "connected"
          ELSE /\ connected' = FALSE
               /\ connection_error' = "Connection failed"
               /\ broker' = "refused"
    /\ UNCHANGED <<socketVars, iotVars, prefectVars, sessionVars, slackVars, workerVars,
                   message_handlers, loop_thread, mq_pc, mq_call, mq_before, mq_ret, mq_calls>>

\* _on_disconnect(rc), from the network thread when the connection drops
OnDisconnect ==
    /\ loop_thread /\ broker = "connected"
    /\ connected' = FALSE
    /\ broker' = "lost"
    /\ UNCHANGED <<socketVars, iotVars, prefectVars, sessionVars, slackVars, workerVars,
                   connection_error, message_handlers, loop_thread, mq_pc, mq_call,
                   mq_before, mq_ret, mq_calls>>

\* the network thread connects again after a loss or a refusal
Reconnect ==
    /\ loop_thread /\ broker \in {"lost", "refused"}
    /\ broker' = "connecting"
    /\ UNCHANGED <<socketVars, iotVars, prefectVars, sessionVars, slackVars, workerVars,
                   connected, connection_error, message_handlers, loop_thread, mq_pc,
                   mq_call, mq_before, mq_ret, mq_calls>>

\* subscribe(topic, callback) up to the broker call: the connected test,
\* then self.message_handlers[topic] = callback
Subscribe ==
    /\ mq_pc = "idle" /\ mq_calls < MaxCalls
    /\ mq_calls' = mq_calls + 1
    /\ mq_before' = message_handlers
    /\ \E topic \in Topics, callback \in Callbacks :
          /\ mq_call' = <<"subscribe", topic, callback>>
          /\ IF ~connected
             THEN mq_ret' = "False" /\ UNCHANGED <<mq_pc, message_handlers>>
             ELSE /\ message_handlers' = [message_handlers EXCEPT ![topic] = callback]
                  /\ mq_pc' = "client.subscribe"
                  /\ mq_ret' = ""
    /\ UNCHANGED <<socketVars, iotVars, prefectVars, sessionVars, slackVars, workerVars,
                   connected, connection_error, loop_thread, broker>>

\* result = self.client.subscribe(topic, qos=qos) and the return
SubscribeBroker ==
    /\ mq_pc = "client.subscribe"
    /\ \E o \in SubscribeOutcomes :
          mq_ret' = (IF o = "MQTT_ERR_SUCCESS" THEN "True" ELSE "False")
    /\ mq_pc' = "idle"
    /\ UNCHANGED <<socketVars, iotVars, prefectVars, sessionVars, slackVars, workerVars,
                   connected, connection_error, message_handlers, loop_thread, broker,
                   mq_call, mq_before, mq_calls>>

\* disconnect(): if self.connected
Disconnect ==
    /\ mq_pc = "idle" /\ mq_calls < MaxCalls
    /\ mq_calls' = mq_calls + 1
    /\ mq_call' = <<"disconnect">>
    /\ mq_before' = message_handlers
    /\ IF connected
       THEN mq_pc' = "loop_stop" /\ mq_ret' = ""
       ELSE mq_ret' = "None" /\ UNCHANGED mq_pc
    /\ UNCHANGED <<socketVars, iotVars, prefectVars, sessionVars, slackVars, workerVars,
                   connected, connection_error, message_handlers, loop_thread, broker>>

\* self.client.loop_stop()
DisconnectLoopStop ==
    /\ mq_pc = "loop_stop"
    /\ loop_thread' = FALSE
    /\ mq_pc' = "client.disconnect"
    /\ UNCHANGED <<socketVars, iotVars, prefectVars, sessionVars, slackVars, workerVars,
                   connected, connection_error, message_handlers, broker, mq_call,
                   mq_before, mq_ret, mq_calls>>

\* self.client.disconnect(); self.connected = False
DisconnectClient ==
    /\ mq_pc = "client.disconnect"
    /\ broker' = "disconnected"
    /\ connected' = FALSE
    /\ mq_ret' = "None"
    /\ mq_pc' = "idle"
    /\ UNCHANGED <<socketVars, iotVars, prefectVars, sessionVars, slackVars, workerVars,
                   connection_error, message_handlers, loop_thread, mq_call, mq_before,
                   mq_calls>>

NextMqtt ==
    \/ OnConnect
    \/ OnDisconnect
    \/ Reconnect
    \/ Subscribe
    \/ SubscribeBroker
    \/ Disconnect
    \/ DisconnectLoopStop
    \/ DisconnectClient

SpecMqtt == InitMqtt /\ [][NextMqtt]_vars

\* the latest call was f and it has returned
MqReturned(f) == mq_call # <<>> /\ mq_call[1] = f /\ mq_pc = "idle"

(***************************************************************************)
(* C28  As claimed: when disconnect() has returned, on a client whose      *)
(* connect() returned True, the network loop is stopped and the MQTT       *)
(* client is disconnected, however the call interleaved with on_connect    *)
(* and on_disconnect.                                                      *)
(***************************************************************************)
C28_DisconnectStops ==
    MqReturned("disconnect") => ~loop_thread /\ broker = "disconnected"

(***************************************************************************)
(* C30  As claimed: when subscribe has returned False the message-handler  *)
(* registry is as it was before the call, and it holds a new handler only  *)
(* when subscribe returned True.                                           *)
(***************************************************************************)
C30_RegistryOnFailure ==
    MqReturned("subscribe") =>
        /\ mq_ret = "False" => message_handlers = mq_before
        /\ message_handlers # mq_before => mq_ret = "True"

====
